---- MODULE Spec2Model ----
(***************************************************************************)
(* A model of exotic/api/nested_linear_fitter.py: the linear_fitter object *)
(* (construction, fit_nested, plot_periodogram) and its two external       *)
(* capabilities, the nested sampler and the Lomb-Scargle periodogram.      *)
(*                                                                         *)
(* Numbers.  Times, uncertainties and bounds are integers.  A sampled      *)
(* parameter is low + (high - low) * u with u = k/UDen, so every fitted    *)
(* quantity (parameters, model, residuals, harmonic fit, bin sums) is kept *)
(* as an integer count of 1/UDen: "x scaled" below means x * UDen.         *)
(* Epochs and periods are integers.  The midpoint of a bound pair is kept  *)
(* as the sum low + high (twice the midpoint).                             *)
(***************************************************************************)
EXTENDS Integers, Sequences, FiniteSets, TLC

VARIABLES
    lf,           \* the linear_fitter object (lf.built = FALSE: none exists)
    call,         \* the API call made last, with its arguments
    raised,       \* the exception that call ended with, or NoError
    samplerCall,  \* the sampler run made by the latest fit (NoCall: it made none)
    pc,           \* the stage of plot_periodogram completed last ("idle" outside it)
    frame,        \* the local variables of the latest plot_periodogram call
    pt            \* one evaluation of prior_transform: its closure, argument, result

vars == <<lf, call, raised, samplerCall, pc, frame, pt>>

----------------------------------------------------------------------------
(* Bounds of the model *)

\* longest dataset
MaxN == 3
\* the sampler's unit cube is sampled at u = 0, 1/UDen, ..., 1
UDen == 1
\* a direct evaluation of prior_transform takes u = 0, 1/PTDen, ..., 1
PTDen == 4

(* Program constants *)

\* run(max_ncalls=4e5, ...)
max_ncalls == 400000
\* run(..., min_num_live_points=420, ...)
min_num_live_points == 420
\* bins = np.linspace(0,1,8)
NBins == 8
\* maxper = 50 (second pass)
maxper2 == 50
\* use +- 3 sigma prior as bounds
NSigma == 3

----------------------------------------------------------------------------
(* Inputs *)

\* an observation is <<time, uncertainty>>, uncertainty > 0.  Every bounds
\* dict below that has an 'm' entry has a nonzero slope midpoint: line 91
\* divides by it
ObsChoices == { <<0, 1>>, <<1, 2>>, <<25, 1>> }

RECURSIVE SeqsUpTo(_, _)
SeqsUpTo(S, n) ==
    IF n = 0 THEN { <<>> }
    ELSE LET shorter == SeqsUpTo(S, n - 1)
         IN  shorter \cup { Append(s, x) : s \in { t \in shorter : Len(t) = n - 1 }, x \in S }

Datasets == SeqsUpTo(ObsChoices, MaxN)

Item(k, lo, hi) == [k |-> k, lo |-> lo, hi |-> hi]

\* a bounds dict, in insertion order (Python dicts keep it)
BoundsChoices ==
    { << Item("m", 1, 3), Item("b", -1, 1) >>,
      << Item("b", 0, 1), Item("m", 0, 1) >>,
      << Item("m", 1, 2), Item("b", -1, 1) >>,
      << Item("m", 1, 1), Item("b", 0, 0) >>,
      << Item("m", -1, -3), Item("b", 1, -1) >>,
      << Item("m", 1, 3) >>,
      << Item("b", -1, 1) >> }

\* the bounds a caller assigns to lf.bounds before fitting again
RefitChoices ==
    { << Item("m", 1, 3), Item("b", -1, 1) >>,
      << Item("b", 0, 1), Item("m", 0, 1) >>,
      << Item("b", -1, 1) >> }

\* a prior dict: key -> <<mean, stdev>>
PriorChoices == { [m |-> <<1, 1>>, b |-> <<0, 1>>] }

\* the stopping criteria a caller wants for the fit it constructs.  __init__
\* (line 58) has no parameter that takes them (nor has fit_nested, line 85)
ConfigChoices ==
    { [max_ncalls |-> 400000, min_num_live_points |-> 420],
      [max_ncalls |-> 1000, min_num_live_points |-> 100] }

\* Python None / a value, for an optional argument
None == [isNone |-> TRUE, v |-> <<>>]
Some(x) == [isNone |-> FALSE, v |-> x]

NoError == "none"

----------------------------------------------------------------------------
(* Helpers: dicts, numpy reductions *)

Keys(d) == { d[i].k : i \in DOMAIN d }
HasKey(d, k) == k \in Keys(d)
Get(d, k) == LET i == CHOOSE j \in DOMAIN d : d[j].k = k IN d[i]

\* low + high: twice np.mean(self.bounds[k])
Mid2(d, k) == Get(d, k).lo + Get(d, k).hi

RECURSIVE SumSeq(_)
SumSeq(s) == IF s = <<>> THEN 0 ELSE s[1] + SumSeq(Tail(s))

SeqMin(s) == CHOOSE x \in { s[i] : i \in DOMAIN s } : \A i \in DOMAIN s : x <= s[i]
SeqMax(s) == CHOOSE x \in { s[i] : i \in DOMAIN s } : \A i \in DOMAIN s : x >= s[i]

Abs(x) == IF x < 0 THEN -x ELSE x

----------------------------------------------------------------------------
(* fit_nested *)

\* np.floor(p/q), q # 0: what rounding is compared with
RoundDown(p, q) == IF q < 0 THEN (-p) \div (-q) ELSE p \div q

\* np.round(p/q), q # 0: the nearest integer, a tie going to the even one
RoundHalfEven(p, q) ==
    LET pp == IF q < 0 THEN -p ELSE p
        qq == IF q < 0 THEN -q ELSE q
        f  == pp \div qq
        r  == pp - f * qq
    IN  IF 2 * r < qq THEN f
        ELSE IF 2 * r > qq THEN f + 1
        ELSE IF f % 2 = 0 THEN f ELSE f + 1

NpRound(p, q) == RoundHalfEven(p, q)

\* self.epochs = np.round((self.data - np.mean(self.bounds['b']))/np.mean(self.bounds['m']))
EpochsOf(data, bounds) ==
    [i \in DOMAIN data |-> NpRound(2 * data[i] - Mid2(bounds, "b"), Mid2(bounds, "m"))]

\* freekeys = list(self.bounds.keys())
FreeKeys(bounds) == [i \in DOMAIN bounds |-> bounds[i].k]

\* bounddiff = np.diff(boundarray,1).reshape(-1)
BoundDiff(bounds) == [i \in DOMAIN bounds |-> bounds[i].hi - bounds[i].lo]

\* boundarray[:,0] alone, whatever upars: a transform that ignores the cube
PriorTransformLow(bounds, u, den) ==
    [i \in DOMAIN bounds |-> bounds[i].lo * den]

\* prior_transform(upars) = boundarray[:,0] + bounddiff*upars, with
\* upars[i] = u[i]/den; the result is a count of 1/den
PriorTransformAt(bounds, u, den) ==
    [i \in DOMAIN bounds |-> bounds[i].lo * den + BoundDiff(bounds)[i] * u[i]]

\* the sampler's draw: upars[i] = u[i]/UDen, the result scaled
PriorTransform(bounds, u) == PriorTransformAt(bounds, u, UDen)

\* the unit cube [0,1]^k on the grid of denominator den
UnitCubeAt(k, den) == [1..k -> 0..den]
UnitCube(k) == UnitCubeAt(k, UDen)

\* for i, key in enumerate(freekeys): self.parameters[key] = point[i]
ParameterOf(bounds, point, key) ==
    LET i == CHOOSE j \in DOMAIN bounds : bounds[j].k = key IN point[i]

\* self.model = self.epochs * self.parameters['m'] + self.parameters['b'] (scaled)
ModelOf(epochs, m, b) == [i \in DOMAIN epochs |-> epochs[i] * m + b]

\* self.residuals = self.data - self.model (scaled)
ResidualsOf(data, model) == [i \in DOMAIN data |-> data[i] * UDen - model[i]]

NoObject ==
    [built |-> FALSE, data |-> <<>>, dataerr |-> <<>>, bounds |-> <<>>,
     prior |-> None, epochs |-> <<>>, results |-> None, errors |-> <<>>,
     quantiles |-> <<>>, parameters |-> <<>>, model |-> <<>>,
     residuals |-> <<>>, periods |-> None, power |-> None]

NoCall == [made |-> FALSE, param_names |-> <<>>, low |-> <<>>, high |-> <<>>,
           max_ncalls |-> 0, min_num_live_points |-> 0]

\* what the sampler is handed at line 103
SamplerArgs(bounds) ==
    [made |-> TRUE, param_names |-> FreeKeys(bounds),
     low |-> [i \in DOMAIN bounds |-> bounds[i].lo],
     high |-> [i \in DOMAIN bounds |-> bounds[i].hi],
     max_ncalls |-> max_ncalls, min_num_live_points |-> min_num_live_points]

\* lines 88-91: the object once self.epochs is assigned
WithEpochs(self) == [self EXCEPT !.epochs = EpochsOf(self.data, self.bounds)]

RECURSIVE ProdSeq(_)
ProdSeq(s) == IF s = <<>> THEN 1 ELSE s[1] * ProdSeq(Tail(s))

\* the slope and the intercept loglike takes from a sample: pars[0], pars[1]
SlopeOf(pars) == pars[1]
InterceptOf(pars) == pars[2]

\* model = pars[0]*self.epochs + pars[1] (scaled)
LoglikeModel(epochs, pars) ==
    [i \in DOMAIN epochs |-> SlopeOf(pars) * epochs[i] + InterceptOf(pars)]

\* chi-squared of a model: np.sum(((self.data-model)/self.dataerr)**2), as
\* the integer chi2 * (UDen * product of dataerr)^2
ChiSquared(data, dataerr, model) ==
    LET P == ProdSeq(dataerr)
    IN  SumSeq([i \in DOMAIN data |->
                  ((data[i] * UDen - model[i]) * (P \div dataerr[i]))
                * ((data[i] * UDen - model[i]) * (P \div dataerr[i]))])

\* loglike(pars) = -0.5 * chi-squared, kept as -chi-squared (scaled)
Loglike(self, pars) ==
    0 - ChiSquared(self.data, self.dataerr, LoglikeModel(self.epochs, pars))

\* lines 105-119 for the sampler's result: its maximum-likelihood point is
\* prior_transform(u), with its log-likelihood; stdev/errlo/errup are kept
\* as the component index
WithFit(self, u) ==
    LET point == PriorTransform(self.bounds, u)
        keys  == Keys(self.bounds)
        idx   == [key \in keys |-> CHOOSE j \in DOMAIN self.bounds : self.bounds[j].k = key]
        pars  == [key \in keys |-> ParameterOf(self.bounds, point, key)]
        model == ModelOf(self.epochs, pars["m"], pars["b"])
    IN  [self EXCEPT
            !.results = Some([point |-> point, logl |-> Loglike(self, point)]),
            !.errors = [key \in keys |-> idx[key]],
            !.quantiles = [key \in keys |-> <<idx[key], idx[key]>>],
            !.parameters = pars,
            !.model = model,
            !.residuals = ResidualsOf(self.data, model)]

\* self.bounds['b'] / self.bounds['m'] at line 91
EpochKeysPresent(bounds) == HasKey(bounds, "b") /\ HasKey(bounds, "m")

----------------------------------------------------------------------------
Idle == pc = "idle"

NoEval == [bounds |-> <<>>, upars |-> <<>>, done |-> FALSE, out |-> <<>>]

\* the locals of plot_periodogram before its first line
NoFrame ==
    [minper |-> 0, maxper |-> 0, per |-> 0, per2 |-> 0, newphase |-> <<>>,
     y_bestfit |-> <<>>, residuals |-> <<>>, binned |-> <<>>,
     binned_std |-> <<>>, basis2 |-> <<>>, lsCalls |-> <<>>]

\* no object yet, no call made
InitObject ==
    /\ lf = NoObject
    /\ call = [op |-> "none", bounds |-> None, prior |-> None, config |-> None]
    /\ raised = NoError
    /\ samplerCall = NoCall
    /\ pc = "idle"
    /\ frame = NoFrame

Init == InitObject /\ pt = NoEval

\* lines 73-82 of __init__: the object before fit_nested runs
NewObject(ds, bounds, prior) ==
    [NoObject EXCEPT
        !.built = TRUE,
        !.data = [i \in DOMAIN ds |-> ds[i][1]],
        !.dataerr = [i \in DOMAIN ds |-> ds[i][2]],
        !.prior = prior,
        !.bounds =
            IF bounds.isNone
            THEN << Item("m", prior.v.m[1] - NSigma * prior.v.m[2], prior.v.m[1] + NSigma * prior.v.m[2]),
                    Item("b", prior.v.b[1] - NSigma * prior.v.b[2], prior.v.b[1] + NSigma * prior.v.b[2]) >>
            ELSE bounds.v]

\* lf = linear_fitter(data, dataerr, bounds, prior)
Construct ==
    /\ Idle
    /\ ~lf.built
    /\ \E ds \in Datasets, bounds \in {None} \cup { Some(b) : b \in BoundsChoices },
          prior \in {None} \cup { Some(p) : p \in PriorChoices },
          config \in ConfigChoices :
        /\ call' = [op |-> "__init__", bounds |-> bounds, prior |-> prior,
                    config |-> Some(config)]
        /\ UNCHANGED <<pc, frame, pt>>
        /\ IF prior.isNone
           THEN \* line 76: None has no copy()
                /\ raised' = "AttributeError"
                /\ samplerCall' = NoCall
                /\ UNCHANGED lf
           ELSE LET self == NewObject(ds, bounds, prior) IN
                IF ~EpochKeysPresent(self.bounds)
                THEN /\ raised' = "KeyError"
                     /\ samplerCall' = NoCall
                     /\ UNCHANGED lf
                ELSE /\ samplerCall' = SamplerArgs(self.bounds)
                     /\ \/ /\ raised' = "SamplerError"
                           /\ UNCHANGED lf
                        \/ \E u \in UnitCube(Len(self.bounds)) :
                              /\ lf' = WithFit(WithEpochs(self), u)
                              /\ raised' = NoError

\* the caller's lf.bounds = bounds (or no assignment), then lf.fit_nested()
FitNested ==
    /\ Idle
    /\ lf.built
    /\ \E bounds \in RefitChoices \cup {lf.bounds} :
        LET self == [lf EXCEPT !.bounds = bounds] IN
        /\ call' = [op |-> "fit_nested", bounds |-> None, prior |-> None,
                    config |-> None]
        /\ UNCHANGED <<pc, frame, pt>>
        /\ IF ~EpochKeysPresent(bounds)
           THEN /\ raised' = "KeyError"
                /\ lf' = self
                /\ samplerCall' = NoCall
           ELSE /\ samplerCall' = SamplerArgs(bounds)
                /\ \/ /\ raised' = "SamplerError"
                      /\ lf' = WithEpochs(self)
                   \/ \E u \in UnitCube(Len(bounds)) :
                         /\ lf' = WithFit(WithEpochs(self), u)
                         /\ raised' = NoError

----------------------------------------------------------------------------
(* plot_periodogram *)

\* np.argsort(keys): the index order that sorts keys; equal keys are left in
\* index order (the statistics below do not depend on the order among ties)
ArgSort(keys) ==
    LET n == Len(keys)
        Rank(j) == Cardinality({ k \in 1..n : keys[k] < keys[j] \/ (keys[k] = keys[j] /\ k <= j) })
    IN  [i \in 1..n |-> CHOOSE j \in 1..n : Rank(j) = i]

\* np.diff(self.epochs[si])
SortedDiffs(epochs) ==
    LET si == ArgSort(epochs)
    IN  [i \in 1..(Len(epochs) - 1) |-> epochs[si[i + 1]] - epochs[si[i]]]

\* minper = max(2,2 * np.diff(self.epochs[si]).min())
Minper(epochs) ==
    LET d == 2 * SeqMin(SortedDiffs(epochs)) IN IF d > 2 THEN d ELSE 2

\* maxper = (np.max(self.epochs) - np.min(self.epochs))*3.
Maxper(epochs) == (SeqMax(epochs) - SeqMin(epochs)) * 3

\* the first pass's maximum period, were it used again
MaxperFirstPass(epochs) == Maxper(epochs)

\* maxper = 50: the maximum period of the second pass, whatever the epochs
MaxperSecond(epochs) == maxper2

\* the periods 1./freq of the grid autopower evaluates between
\* minimum_frequency = 1/maxper and maximum_frequency = 1/minper, of which
\* the two ends are kept: none when the range is empty (maxper = 0 gives
\* minimum_frequency = inf)
GridPeriods(minper, maxper) ==
    IF maxper <= 0 \/ minper > maxper THEN {}
    ELSE { minper, maxper }

\* one LombScargle(self.epochs, y, dy=self.dataerr).autopower(...) call
LsCall(y, minper, maxper) == [y |-> y, minper |-> minper, maxper |-> maxper]

\* newphase = self.epochs/per % 1, each phase as <<numerator, per>>
PhaseOf(epochs, per) == [i \in DOMAIN epochs |-> <<epochs[i] % per, per>>]

\* the sign of np.sin(2*np.pi*epoch/per): the harmonic basis, rounded
SinSign(e, per) ==
    LET r == e % per
    IN  IF 2 * r = 0 \/ 2 * r = per THEN 0 ELSE IF 2 * r < per THEN 1 ELSE -1

\* what the weighted least squares refit may return: <<amplitude, offset>>
HarmonicChoices == { <<1, 0>>, <<0, 1>> }

\* y_bestfit = np.dot(basis.T, coeffs) (scaled)
YBestfit(epochs, per, coeffs) ==
    [i \in DOMAIN epochs |-> coeffs[1] * SinSign(epochs[i], per) + coeffs[2]]

\* self.residuals as they are, the harmonic fit not subtracted
NotDetrended(residuals, y_bestfit) == residuals

\* residuals = self.residuals - y_bestfit
Detrended(residuals, y_bestfit) ==
    [i \in DOMAIN residuals |-> residuals[i] - y_bestfit[i]]

\* np.digitize(x, bins, right=True): the number of edges k/7 that are < x
DigitizeRight(ph) == Cardinality({ k \in 0..(NBins - 1) : k * ph[2] < (NBins - 1) * ph[1] })

\* np.digitize(x, np.linspace(0,1,8)) for x = ph[1]/ph[2]: the number of
\* edges k/7 that are <= x
Digitize(ph) == Cardinality({ k \in 0..(NBins - 1) : k * ph[2] <= (NBins - 1) * ph[1] })

\* np.nan
NaN == [kind |-> "nan", num |-> 0, den |-> 1]

\* a reduction without the elif branch: a lone point gets (mean, std) too
BinBranchesNoLone(n, sum, sumsq, err) ==
    IF n >= 1
    THEN << [kind |-> "mean", num |-> sum, den |-> n],
            [kind |-> "std", num |-> n * sumsq - sum * sum, den |-> n * n] >>
    ELSE << NaN, NaN >>

\* the three branches of the loop body for the n points xs of a bin, the
\* first of them with uncertainty err: <<binned[i], binned_std[i]>>.  A mean
\* is the fraction num/den (scaled); a standard deviation is given by its
\* square (np.std: the mean squared deviation), kind "std"; kind "dataerr"
\* is an entry of self.dataerr
BinBranches(n, sum, sumsq, err) ==
    IF n > 1
    THEN << [kind |-> "mean", num |-> sum, den |-> n],
            [kind |-> "std", num |-> n * sumsq - sum * sum, den |-> n * n] >>
    ELSE IF n = 1
    THEN << [kind |-> "mean", num |-> sum, den |-> 1],
            [kind |-> "dataerr", num |-> err, den |-> 1] >>
    ELSE << NaN, NaN >>

\* self.residuals[si][mask] and self.dataerr[si][mask] for the points sel
Squares(xs) == [k \in DOMAIN xs |-> xs[k] * xs[k]]
Masked(xs, errs) ==
    BinBranches(Len(xs), SumSeq(xs), SumSeq(Squares(xs)), IF errs = <<>> THEN 0 ELSE errs[1])
BinOf(sel, values, dataerr) ==
    Masked([k \in DOMAIN sel |-> values[sel[k]]], [k \in DOMAIN sel |-> dataerr[sel[k]]])

\* mask = np.digitize(newphase[si], bins)==i, and the loop body for bin i
BinReduce(i, si, digit, values, dataerr) ==
    LET InBin(j) == digit[j] = i
    IN  BinOf(SelectSeq(si, InBin), values, dataerr)

\* si = np.argsort(newphase); for i in range(0,len(bins)): ... ; the result
\* maps each bin index i to <<binned[i], binned_std[i]>>
Binning(newphase, values, dataerr) ==
    CHOOSE bins \in
        { [i \in 0..(NBins - 1) |-> BinReduce(i, si, digit, values, dataerr)] :
            si \in { ArgSort([j \in DOMAIN newphase |-> newphase[j][1]]) },
            digit \in { [j \in DOMAIN newphase |-> Digitize(newphase[j])] } } : TRUE

\* the object with its epochs sorted in place as well (self.epochs.sort()
\* where the source takes np.argsort)
WithPeriodogramSorted(self, minper, maxper) ==
    [self EXCEPT !.epochs = [i \in DOMAIN self.epochs |-> self.epochs[ArgSort(self.epochs)[i]]],
                 !.periods = Some(<<minper, maxper>>),
                 !.power = Some(self.residuals)]

\* self.periods = 1./freq; self.power = power: the grid by its two ends, the
\* power by the series it is the spectrum of
WithPeriodogram(self, minper, maxper) ==
    [self EXCEPT !.periods = Some(<<minper, maxper>>),
                 !.power = Some(self.residuals)]

Stages == <<"ls1", "fit1", "bin1", "detrend", "ls2", "fit2", "bin2">>

\* an exception leaves plot_periodogram: the frame stays as it was at the raise
Abort(f, exc) ==
    /\ frame' = f
    /\ raised' = exc
    /\ pc' = "idle"
    /\ UNCHANGED lf

\* lines 287-301: the period range, the first periodogram, the fold
Periodogram1 ==
    /\ Idle
    /\ lf.built
    /\ call' = [op |-> "plot_periodogram", bounds |-> None, prior |-> None,
                config |-> None]
    /\ UNCHANGED <<samplerCall, pt>>
    /\ IF Len(lf.epochs) < 2
       THEN \* np.diff(...).min() of an empty array
            Abort(NoFrame, "ValueError")
       ELSE LET minper == Minper(lf.epochs)
                maxper == Maxper(lf.epochs)
                f == [NoFrame EXCEPT !.minper = minper, !.maxper = maxper,
                         !.lsCalls = << LsCall(lf.residuals, minper, maxper) >>]
            IN  IF GridPeriods(minper, maxper) = {}
                THEN \* np.argmax(power) of an empty grid
                     Abort(f, "ValueError")
                ELSE \E per \in GridPeriods(minper, maxper) :
                        /\ frame' = [f EXCEPT !.per = per,
                                        !.newphase = PhaseOf(lf.epochs, per)]
                        /\ lf' = WithPeriodogram(lf, minper, maxper)
                        /\ raised' = NoError
                        /\ pc' = "ls1"

\* lines 303-314: the one-period weighted least squares refit
HarmonicFit1 ==
    /\ pc = "ls1"
    /\ \E coeffs \in HarmonicChoices :
          frame' = [frame EXCEPT !.y_bestfit = YBestfit(lf.epochs, frame.per, coeffs)]
    /\ pc' = "fit1"
    /\ UNCHANGED <<lf, call, raised, samplerCall, pt>>

\* lines 371-388: bin the folded residuals
Binning1 ==
    /\ pc = "fit1"
    /\ \E bins \in { Binning(frame.newphase, lf.residuals, lf.dataerr) } :
          frame' = [frame EXCEPT
                       !.binned = [i \in DOMAIN bins |-> bins[i][1]],
                       !.binned_std = [i \in DOMAIN bins |-> bins[i][2]]]
    /\ pc' = "bin1"
    /\ UNCHANGED <<lf, call, raised, samplerCall, pt>>

\* lines 400-402: detrend
Detrend ==
    /\ pc = "bin1"
    /\ frame' = [frame EXCEPT
                    !.residuals = Detrended(lf.residuals, frame.y_bestfit),
                    !.maxper = MaxperSecond(lf.epochs)]
    /\ pc' = "detrend"
    /\ UNCHANGED <<lf, call, raised, samplerCall, pt>>

\* lines 404-409: the periodogram of the detrended residuals
Periodogram2 ==
    /\ pc = "detrend"
    /\ UNCHANGED <<call, samplerCall, pt>>
    /\ LET f == [frame EXCEPT !.lsCalls =
                    Append(@, LsCall(frame.residuals, frame.minper, frame.maxper))]
       IN  IF GridPeriods(frame.minper, frame.maxper) = {}
           THEN Abort(f, "ValueError")
           ELSE \E per2 \in GridPeriods(frame.minper, frame.maxper) :
                   /\ frame' = [f EXCEPT !.per2 = per2]
                   /\ pc' = "ls2"
                   /\ UNCHANGED <<lf, raised>>

\* lines 411-424: the two-period refit of self.residuals
HarmonicFit2 ==
    /\ pc = "ls2"
    /\ frame' = [frame EXCEPT !.basis2 = <<frame.per, frame.per2>>]
    /\ pc' = "fit2"
    /\ UNCHANGED <<lf, call, raised, samplerCall, pt>>

\* lines 445-481: fold at the second period and bin the detrended residuals
Binning2 ==
    /\ pc = "fit2"
    /\ \E newphase \in { PhaseOf(lf.epochs, frame.per2) } :
       \E bins \in { Binning(newphase, frame.residuals, lf.dataerr) } :
          frame' = [frame EXCEPT
                       !.newphase = newphase,
                       !.binned = [i \in DOMAIN bins |-> bins[i][1]],
                       !.binned_std = [i \in DOMAIN bins |-> bins[i][2]]]
    /\ pc' = "bin2"
    /\ UNCHANGED <<lf, call, raised, samplerCall, pt>>

\* line 489: return fig,ax
Return ==
    /\ pc = "bin2"
    /\ pc' = "idle"
    /\ UNCHANGED <<lf, call, raised, samplerCall, frame, pt>>

----------------------------------------------------------------------------
(* One evaluation of prior_transform, as the sampler makes it *)

EvalPriorTransform ==
    /\ ~pt.done
    /\ pt' = [pt EXCEPT !.done = TRUE,
                        !.out = PriorTransformAt(pt.bounds, pt.upars, PTDen)]
    /\ UNCHANGED <<lf, call, raised, samplerCall, pc, frame>>

InitPrior ==
    /\ InitObject
    /\ \E bounds \in BoundsChoices :
          \E upars \in UnitCubeAt(Len(bounds), PTDen) :
             pt = [bounds |-> bounds, upars |-> upars, done |-> FALSE, out |-> <<>>]

----------------------------------------------------------------------------
(* Specifications *)

\* the object's life with re-fits
Next == Construct \/ FitNested

Spec == Init /\ [][Next]_vars

\* construction, then runs of plot_periodogram
NextPeriodogram ==
    \/ Construct
    \/ Periodogram1
    \/ HarmonicFit1
    \/ Binning1
    \/ Detrend
    \/ Periodogram2
    \/ HarmonicFit2
    \/ Binning2
    \/ Return

SpecPeriodogram == Init /\ [][NextPeriodogram]_vars

\* prior_transform alone
NextPrior == EvalPriorTransform

SpecPrior == InitPrior /\ [][NextPrior]_vars

----------------------------------------------------------------------------
(* Properties *)

Range(f) == { f[i] : i \in DOMAIN f }

RECURSIVE SetSum(_, _)
\* the sum of f over the index set S
SetSum(S, f) ==
    IF S = {} THEN 0
    ELSE LET j == CHOOSE k \in S : TRUE IN f[j] + SetSum(S \ {j}, f)

\* the fit that the latest call completed
FitCompleted ==
    lf.built /\ raised = NoError /\ call.op \in {"__init__", "fit_nested"}

\* C1: after a fit every epoch is an integer nearest to (time - b_mid)/m_mid:
\* |epoch * m_mid - (time - b_mid)| <= |m_mid|/2, with m_mid and b_mid the
\* midpoints of the 'm' and 'b' bounds (here times four, midpoints doubled)
C1_EpochsNearestInteger ==
    FitCompleted =>
        /\ DOMAIN lf.epochs = DOMAIN lf.data
        /\ \A i \in DOMAIN lf.data :
              /\ lf.epochs[i] \in Int
              /\ 2 * Abs(lf.epochs[i] * Mid2(lf.bounds, "m")
                         - (2 * lf.data[i] - Mid2(lf.bounds, "b")))
                    <= Abs(Mid2(lf.bounds, "m"))

\* a re-fit completed with an observation that is not a whole number of
\* cycles from the intercept midpoint, so rounding moved it
C1_Witness ==
    /\ FitCompleted
    /\ call.op = "fit_nested"
    /\ \E i \in DOMAIN lf.data :
          lf.epochs[i] * Mid2(lf.bounds, "m") # 2 * lf.data[i] - Mid2(lf.bounds, "b")

\* C2: whenever a fit object exists, its epochs, parameters, model and
\* residuals belong to one fit: model = parameters['m'] * epoch +
\* parameters['b'] and residual = data - model for every observation, also
\* after a re-fit whose sampler call failed
C2_FitResultOfOneFit ==
    lf.built =>
        /\ DOMAIN lf.model = DOMAIN lf.epochs
        /\ \A i \in DOMAIN lf.epochs :
              /\ lf.model[i] = lf.parameters["m"] * lf.epochs[i] + lf.parameters["b"]
              /\ lf.residuals[i] = lf.data[i] * UDen - lf.model[i]

\* C3: prior_transform returns low + (high - low) * u per free parameter:
\* u = 0 gives low and u = 1 gives high, the result lies in [low, high]
\* (for low <= high, when that is an interval), it moves by (high - low)
\* times the change of u, and two different u give different results when
\* low < high for every parameter
C3_PriorTransformContract ==
    pt.done =>
        /\ DOMAIN pt.out = DOMAIN pt.bounds
        /\ \A i \in DOMAIN pt.bounds :
              LET lo == pt.bounds[i].lo
                  hi == pt.bounds[i].hi
              IN  /\ pt.upars[i] = 0 => pt.out[i] = lo * PTDen
                  /\ pt.upars[i] = PTDen => pt.out[i] = hi * PTDen
                  /\ lo <= hi => (lo * PTDen <= pt.out[i] /\ pt.out[i] <= hi * PTDen)
        /\ \A v \in UnitCubeAt(Len(pt.bounds), PTDen) :
              LET other == PriorTransformAt(pt.bounds, v, PTDen)
              IN  /\ \A i \in DOMAIN pt.bounds :
                        other[i] - pt.out[i]
                            = (pt.bounds[i].hi - pt.bounds[i].lo) * (v[i] - pt.upars[i])
                  /\ ((\A i \in DOMAIN pt.bounds : pt.bounds[i].lo < pt.bounds[i].hi)
                        /\ v # pt.upars) => other # pt.out

\* an evaluation at a point strictly inside the cube, of proper bounds
C3_Witness ==
    /\ pt.done
    /\ Len(pt.bounds) = 2
    /\ \A i \in DOMAIN pt.bounds :
          /\ pt.bounds[i].lo < pt.bounds[i].hi
          /\ 0 < pt.upars[i] /\ pt.upars[i] < PTDen
          /\ pt.out[i] # pt.bounds[i].lo * PTDen

\* ParameterBounds: both keys, low < high
ValidBounds(d) ==
    /\ HasKey(d, "m") /\ HasKey(d, "b")
    /\ \A i \in DOMAIN d : d[i].lo < d[i].hi

\* C4: constructing with bounds that miss 'm' or 'b', or that have
\* low >= high for a parameter, fails with InvalidBounds, yields no fit
\* result, and never runs the sampler
C4_InvalidBoundsRejected ==
    (call.op = "__init__" /\ ~call.bounds.isNone /\ ~ValidBounds(call.bounds.v)) =>
        /\ raised = "InvalidBounds"
        /\ ~lf.built
        /\ ~samplerCall.made

\* C5: with (valid) bounds supplied and prior None, construction does not
\* fail for want of a prior: the fit runs on the supplied bounds unchanged
C5_PriorOptional ==
    (call.op = "__init__" /\ call.prior.isNone /\ ~call.bounds.isNone
        /\ ValidBounds(call.bounds.v)) =>
        /\ raised \in {NoError, "SamplerError"}
        /\ samplerCall = SamplerArgs(call.bounds.v)
        /\ raised = NoError => (lf.built /\ lf.bounds = call.bounds.v)

\* C6: no fit result exists, and no periodogram is evaluated, for a dataset
\* of fewer than 2 observations or fewer than 2 distinct epochs (stated for
\* fits on valid bounds, so that the dataset is all that is wrong)
C6_InsufficientDataRejected ==
    (lf.built /\ ValidBounds(lf.bounds)) =>
        /\ Len(lf.data) >= 2 /\ Cardinality(Range(lf.epochs)) >= 2
        /\ frame.lsCalls # <<>> => Cardinality(Range(lf.epochs)) >= 2

\* C7: no periodogram is evaluated with minimum_frequency >= maximum_frequency
\* (minimum period >= maximum period) or with a zero maximum period; such a
\* run ends with DegenerateFrequencyRange instead (stated for fits on valid
\* bounds with two distinct epochs, so that the range is all that is wrong)
C7_NoDegenerateEvaluation ==
    (lf.built /\ ValidBounds(lf.bounds) /\ Cardinality(Range(lf.epochs)) >= 2) =>
        /\ \A k \in DOMAIN frame.lsCalls :
              /\ 0 < frame.lsCalls[k].minper
              /\ frame.lsCalls[k].minper < frame.lsCalls[k].maxper
        /\ (call.op = "plot_periodogram" /\ raised # NoError)
              => raised = "DegenerateFrequencyRange"

\* the least distance between the epochs of two observations
MinSpacing(epochs) ==
    LET gaps == { Abs(epochs[i] - epochs[j]) : i, j \in DOMAIN epochs } \ {0}
        twins == \E i, j \in DOMAIN epochs : i # j /\ epochs[i] = epochs[j]
    IN  IF twins THEN 0 ELSE CHOOSE g \in gaps : \A h \in gaps : g <= h

\* C8: both periodogram passes use the minimum period max(2, 2 x minimum
\* spacing of the sorted epochs); the first pass uses the maximum period
\* 3 x (max epoch - min epoch), the second the fixed maximum period 50
C8_PeriodRanges ==
    LET calls == frame.lsCalls
        lowest == CHOOSE e \in Range(lf.epochs) : \A x \in Range(lf.epochs) : e <= x
        highest == CHOOSE e \in Range(lf.epochs) : \A x \in Range(lf.epochs) : e >= x
        floor2(x) == IF x >= 2 THEN x ELSE 2
    IN  /\ Len(calls) >= 1 =>
              /\ calls[1].minper = floor2(2 * MinSpacing(lf.epochs))
              /\ calls[1].maxper = 3 * (highest - lowest)
        /\ Len(calls) >= 2 =>
              /\ calls[2].minper = calls[1].minper
              /\ calls[2].maxper = 50
        /\ Len(calls) <= 2

\* a second pass whose minimum period comes from the spacing, on a baseline
\* whose first-pass maximum is not 50
C8_Witness ==
    /\ Len(frame.lsCalls) = 2
    /\ frame.lsCalls[1].minper > 2
    /\ frame.lsCalls[1].maxper # 50
    /\ pc = "ls2"

\* the observations whose phase (epoch mod per)/per lies in
\* [(i-1)/7, i/7), the interval of bin index i
InBinSet(i, per) ==
    { j \in DOMAIN lf.epochs :
        /\ (i - 1) * per <= 7 * (lf.epochs[j] % per)
        /\ 7 * (lf.epochs[j] % per) < i * per }

\* bin i holds the reduction of values over the observations S
BinHolds(i, S, values) ==
    LET n == Cardinality(S)
        sq == [j \in DOMAIN values |-> values[j] * values[j]]
    IN  /\ n = 0 => (frame.binned[i].kind = "nan" /\ frame.binned_std[i].kind = "nan")
        /\ n = 1 =>
              LET j == CHOOSE k \in S : TRUE
              IN  /\ frame.binned[i].kind = "mean"
                  /\ frame.binned[i].num = values[j] * frame.binned[i].den
                  /\ frame.binned_std[i].kind = "dataerr"
                  /\ frame.binned_std[i].num = lf.dataerr[j] * frame.binned_std[i].den
        /\ n >= 2 =>
              /\ frame.binned[i].kind = "mean"
              /\ frame.binned[i].num * n = SetSum(S, values) * frame.binned[i].den
              /\ frame.binned_std[i].kind = "std"
              /\ frame.binned_std[i].num * n * n
                    = (n * SetSum(S, sq) - SetSum(S, values) * SetSum(S, values))
                        * frame.binned_std[i].den

\* C9: in each pass the folded values go into 8 bins, each reduced by its
\* count: none gives (NaN, NaN), one gives (the value, that observation's
\* uncertainty), two or more give (mean, standard deviation); the second
\* pass bins the residuals minus the first harmonic fit
C9_BinReduction ==
    /\ pc \in {"bin1", "detrend", "ls2", "fit2"} =>
          /\ DOMAIN frame.binned = 0..7 /\ DOMAIN frame.binned_std = 0..7
          /\ \A i \in 0..7 : BinHolds(i, InBinSet(i, frame.per), lf.residuals)
    /\ pc = "bin2" =>
          /\ DOMAIN frame.binned = 0..7 /\ DOMAIN frame.binned_std = 0..7
          /\ \A i \in 0..7 :
                BinHolds(i, InBinSet(i, frame.per2),
                         [j \in DOMAIN lf.residuals |-> lf.residuals[j] - frame.y_bestfit[j]])

\* the second pass binned a lone point, a pair and an empty bin, after a
\* harmonic fit that is not zero
C9_Witness ==
    /\ pc = "bin2"
    /\ \E i \in 0..7 : Cardinality(InBinSet(i, frame.per2)) = 1
    /\ \E i \in 0..7 : Cardinality(InBinSet(i, frame.per2)) >= 2
    /\ \E j \in DOMAIN frame.y_bestfit : frame.y_bestfit[j] # 0
    /\ \E j, k \in DOMAIN lf.dataerr : lf.dataerr[j] # lf.dataerr[k]

\* the position of a stage in the run (0: outside a run)
StageNo(p) ==
    IF p = "idle" THEN 0 ELSE CHOOSE k \in DOMAIN Stages : Stages[k] = p

\* what the stages up to the current one have left for the next
StageInputsComplete ==
    /\ pc # "idle" =>
          /\ lf.built
          /\ DOMAIN lf.epochs = DOMAIN lf.data
          /\ DOMAIN lf.model = DOMAIN lf.data
          /\ DOMAIN lf.residuals = DOMAIN lf.data
          /\ DOMAIN lf.parameters = Keys(lf.bounds)
          /\ \A i \in DOMAIN lf.data :
                /\ lf.model[i] = lf.parameters["m"] * lf.epochs[i] + lf.parameters["b"]
                /\ lf.residuals[i] = lf.data[i] * UDen - lf.model[i]
          /\ raised = NoError
    /\ StageNo(pc) >= 1 =>
          /\ Len(frame.lsCalls) >= 1
          /\ frame.lsCalls[1].y = lf.residuals
          /\ frame.per > 0
          /\ DOMAIN frame.newphase = DOMAIN lf.data
    /\ StageNo(pc) >= 2 => DOMAIN frame.y_bestfit = DOMAIN lf.data
    /\ StageNo(pc) >= 4 =>
          /\ DOMAIN frame.residuals = DOMAIN lf.data
          /\ \A i \in DOMAIN lf.data :
                frame.residuals[i] = lf.residuals[i] - frame.y_bestfit[i]
    /\ StageNo(pc) >= 5 =>
          /\ Len(frame.lsCalls) = 2
          /\ frame.lsCalls[2].y = frame.residuals
          /\ frame.per2 > 0
    /\ StageNo(pc) >= 6 => frame.basis2 = <<frame.per, frame.per2>>
    /\ (StageNo(pc) \in 1..4) => Len(frame.lsCalls) = 1

\* a step moves to the next stage in the source's order, or leaves the run
StageStep ==
    /\ pc' # pc => (pc' = "idle" \/ StageNo(pc') = StageNo(pc) + 1)
    /\ raised' # NoError => pc' = "idle"
    /\ (pc # "idle" /\ pc' = "idle" /\ pc # "bin2") => raised' # NoError

\* C10: the stages of a run happen in a fixed order, each on the completed
\* output of the one before: the fit is complete before a periodogram run
\* starts; then first periodogram, one-period refit, detrending (residual
\* minus that refit), second periodogram on the detrended residuals,
\* two-period refit; a stage that fails ends the run
C10_StageOrder == [](StageInputsComplete) /\ [][StageStep]_vars

\* a run reached the two-period refit with a first harmonic that is not zero
C10_Witness ==
    /\ pc = "fit2"
    /\ \E j \in DOMAIN frame.y_bestfit : frame.y_bestfit[j] # 0
    /\ frame.per # frame.per2

\* the results upstream of plot_periodogram
Upstream(o) ==
    [data |-> o.data, dataerr |-> o.dataerr, bounds |-> o.bounds,
     epochs |-> o.epochs, parameters |-> o.parameters, errors |-> o.errors,
     quantiles |-> o.quantiles, model |-> o.model, residuals |-> o.residuals]

\* a step of plot_periodogram: from its call to its return or raise
PeriodogramStep ==
    pc # "idle" \/ pc' # "idle" \/ (lf.built /\ call'.op = "plot_periodogram")

\* C11: no step of plot_periodogram changes the data, uncertainties, bounds,
\* epochs, parameters, errors, quantiles, model or residuals of the fit; the
\* detrended residuals are a local of the call; the only attributes of the
\* object it writes are periods and power
C11_PeriodogramFrame ==
    [][PeriodogramStep =>
          /\ Upstream(lf') = Upstream(lf)
          /\ lf' = [lf EXCEPT !.periods = lf'.periods, !.power = lf'.power]]_vars

\* a run on unsorted epochs has completed its last stage: the periodogram
\* is stored, the detrended residuals differ from the fit's
C11_Witness ==
    /\ pc = "bin2"
    /\ ~lf.periods.isNone /\ ~lf.power.isNone
    /\ frame.residuals # lf.residuals
    /\ \E i, j \in DOMAIN lf.epochs : i < j /\ lf.epochs[i] > lf.epochs[j]

\* C12: a fit invokes the sampler with the evaluation budget and the
\* live-point count its caller configured, so fits configured differently
\* invoke it with different values (stated for completed constructions on
\* valid bounds)
C12_StoppingCriteriaConfigured ==
    (FitCompleted /\ call.op = "__init__" /\ ValidBounds(lf.bounds)
        /\ samplerCall.made) =>
        /\ samplerCall.max_ncalls = call.config.v.max_ncalls
        /\ samplerCall.min_num_live_points = call.config.v.min_num_live_points

\* C13: whatever the order of the keys of bounds, the value the
\* log-likelihood uses as slope is the sample's component drawn from the 'm'
\* bounds and the intercept the one drawn from the 'b' bounds; at the
\* maximum-likelihood point they are parameters['m'] and parameters['b'],
\* so the likelihood reported there is that of the final model
C13_RolesByKey ==
    (FitCompleted /\ ValidBounds(lf.bounds) /\ Len(lf.bounds) = 2) =>
        /\ \A u \in UnitCube(2) :
              LET pars == PriorTransform(lf.bounds, u)
                  m == CHOOSE i \in 1..2 : lf.bounds[i].k = "m"
                  b == CHOOSE i \in 1..2 : lf.bounds[i].k = "b"
              IN  /\ SlopeOf(pars) = lf.bounds[m].lo * UDen
                                        + (lf.bounds[m].hi - lf.bounds[m].lo) * u[m]
                  /\ InterceptOf(pars) = lf.bounds[b].lo * UDen
                                        + (lf.bounds[b].hi - lf.bounds[b].lo) * u[b]
        /\ SlopeOf(lf.results.v.point) = lf.parameters["m"]
        /\ InterceptOf(lf.results.v.point) = lf.parameters["b"]
        /\ lf.results.v.logl = 0 - ChiSquared(lf.data, lf.dataerr, lf.model)

\* mask.sum() for bin index i: the observations np.digitize puts there
BinCount(i) ==
    Cardinality({ j \in DOMAIN frame.newphase : Digitize(frame.newphase[j]) = i })

\* C14: in both binning passes every folded phase lies in [0,1) and is
\* counted in exactly one bin index of 1..7; index 0 receives no point, so
\* the first of the 8 bins is (NaN, NaN), and the counts of the indices 1..7
\* add up to the number of observations
C14_BinZeroEmpty ==
    pc \in {"bin1", "detrend", "ls2", "fit2", "bin2"} =>
        /\ DOMAIN frame.newphase = DOMAIN lf.data
        /\ \A j \in DOMAIN frame.newphase :
              /\ 0 <= frame.newphase[j][1] /\ frame.newphase[j][1] < frame.newphase[j][2]
              /\ Digitize(frame.newphase[j]) \in 1..7
        /\ BinCount(0) = 0
        /\ frame.binned[0].kind = "nan" /\ frame.binned_std[0].kind = "nan"
        /\ SetSum(1..7, [i \in 1..7 |-> BinCount(i)]) = Len(lf.data)
        /\ \A i \in 0..7 : (frame.binned[i].kind = "nan") <=> (BinCount(i) = 0)

\* the second pass binned three observations, one of them at phase 0 (on the
\* first edge) and one of a negative epoch
C14_Witness ==
    /\ pc = "bin2"
    /\ Len(lf.data) = 3
    /\ \E j \in DOMAIN frame.newphase : frame.newphase[j][1] = 0
    /\ \E j \in DOMAIN lf.epochs : lf.epochs[j] < 0 /\ frame.newphase[j][1] > 0
====
